---- MODULE Spec2Model ----
(***************************************************************************)
(* Model of the program-synthesis enumerator                              *)
(*   frontend/catalyst/synthesis/generator.py :: control_flows            *)
(* together with the Builder / scope tracker it drives.  The generator is  *)
(* modelled as a state machine whose positions are the points where the    *)
(* Python generator can be observed: created, inside the zip loop,         *)
(* suspended at `yield`, in the `except AssertionError` handler,           *)
(* exhausted, or terminated by an uncaught exception.                      *)
(***************************************************************************)
EXTENDS Integers, Sequences, FiniteSets, TLC

VARIABLES expr_lib, gate_lib, free_vars, pc, cur, k, b, out, log, err,
          lib_pois, out_combo

\* catalyst_decompose: the tape, the device's operations, the result
VARIABLES d_tape, d_operations, d_pc, d_result

\* _map_counts: its three arguments and the vector it returns
VARIABLES m_counts, m_sub_wires, m_wire_order, m_pc, m_result

decvars == <<d_tape, d_operations, d_pc, d_result>>

mapvars == <<m_counts, m_sub_wires, m_wire_order, m_pc, m_result>>

vars == <<expr_lib, gate_lib, free_vars, pc, cur, k, b, out, log, err,
          lib_pois, out_combo, decvars, mapvars>>

(***************************************************************************)
(* Bounds of the exploration.                                              *)
(***************************************************************************)
MaxSkel == 2
MaxGates == 2
MaxFree == 2
MaxCombos == 24

(***************************************************************************)
(* Generic helpers.                                                        *)
(***************************************************************************)
Range(s) == {s[i] : i \in 1..Len(s)}

RECURSIVE Fact(_)
Fact(n) == IF n <= 0 THEN 1 ELSE n * Fact(n - 1)

RECURSIVE Pow(_, _)
Pow(a, n) == IF n <= 0 THEN 1 ELSE a * Pow(a, n - 1)

RemoveAt(s, i) == SubSeq(s, 1, i - 1) \o SubSeq(s, i + 1, Len(s))

MaxOf(S) == CHOOSE m \in S : \A x \in S : x <= m

\* Injective sequences over S of length at most n (libraries without duplicates).
SeqsNoRep(S, n) ==
    {s \in UNION {[1..m -> S] : m \in 0..n} :
        \A i, j \in 1..Len(s) : i # j => s[i] # s[j]}

(***************************************************************************)
(* grammar: skeleton expressions and operator signatures.                  *)
(***************************************************************************)
\* WhileLoopExpr(VName("j"), lessExpr(VRefExpr(j), ConstExpr(1)), POI(), CFS.Catalyst)
WhileLoopExpr == [kind |-> "while", binders |-> <<"j">>, npoi |-> 1, sig |-> 1]
\* ForLoopExpr(VName("k1"), ConstExpr(0), ConstExpr(1), POI(), CFS.Catalyst, VName("k2"))
ForLoopExpr == [kind |-> "for", binders |-> <<"k1", "k2">>, npoi |-> 1, sig |-> 1]
\* CondExpr: a conditional with one insertion point per branch, no binder
CondExpr == [kind |-> "cond", binders |-> <<>>, npoi |-> 2, sig |-> 1]
\* Python None in the padded skeleton sequence
None == [kind |-> "None", binders |-> <<>>, npoi |-> 0, sig |-> 0]

Skeletons == {WhileLoopExpr, ForLoopExpr, CondExpr}

SkeletonOfKind(kd) == IF kd \in {s.kind : s \in Skeletons}
                      THEN CHOOSE s \in Skeletons : s.kind = kd
                      ELSE None

\* (FName, Signature) pairs; args is len(Signature.args)
Gates == { [name |-> "inc", args |-> 1], [name |-> "f", args |-> 1],
           [name |-> "g", args |-> 1], [name |-> "h", args |-> 2],
           [name |-> "nop", args |-> 0] }

VarNames == <<"x", "y", "z">>

get_vars(e) == e.binders

signature(e) == [args |-> e.sig]

\* expressions that can be the trailing expression of an insertion point
NoneExpr == [tag |-> "none", v |-> "-", kind |-> "-"]
addExpr(v) == [tag |-> "add", v |-> v, kind |-> "-"]
\* saturate_expr1(e, tail): every insertion point of e receives the tail expression
saturate_expr1(e, tail) == [tag |-> "skel", v |-> tail.v, kind |-> e.kind]

\* AssignStmt(None, FCallExpr(VRefExpr(g), [VRefExpr(v)]))
AssignStmt(target, fn, arg) == [target |-> target, fn |-> fn, arg |-> arg]

POI(stmts, expr) == [stmts |-> stmts, expr |-> expr]

(***************************************************************************)
(* builder: a Program is the list of its insertion points in pre-order.    *)
(* Every point carries an identity (id), the identity of the point whose   *)
(* trailing expression encloses it (parent, 0 for the root), its committed *)
(* statements and its trailing expression.  fills[id] counts the update    *)
(* calls made on the point with that identity.                             *)
(***************************************************************************)
NoBuilder == [pois |-> <<>>, next |-> 1, free |-> <<>>, fills |-> <<>>]

\* build(POI(), free_vars): an empty Program, root point only
build(fv) ==
    [pois |-> << [id |-> 1, parent |-> 0, stmts |-> <<>>, expr |-> NoneExpr] >>,
     next |-> 2, free |-> fv, fills |-> <<0>>]

\* does the 0-based index p address a point of the current Program
has_point(bb, p) == p + 1 \in 1..Len(bb.pois)

PoiById(bb, id) == CHOOSE q \in Range(bb.pois) : q.id = id

\* targets of the assignments of a block (a no-target assignment binds nothing)
Targets(stmts) == {stmts[i].target : i \in 1..Len(stmts)} \ {"None"}

\* scope of the point with identity id: walk up to the root, collecting the
\* binders of every enclosing skeleton and the targets of preceding assignments
RECURSIVE ScopeOfId(_, _)
ScopeOfId(bb, id) ==
    LET q == PoiById(bb, id)
    IN IF q.parent = 0
       THEN Range(bb.free) \cup Targets(q.stmts)
       ELSE LET up == PoiById(bb, q.parent)
            IN ScopeOfId(bb, q.parent)
               \cup Range(SkeletonOfKind(up.expr.kind).binders)
               \cup Targets(q.stmts)

vscope_at(bb, p) == ScopeOfId(bb, bb.pois[p + 1].id)

\* identities of the points nested (at any depth) below the points of S
RECURSIVE Below(_, _)
Below(pois, S) ==
    LET S2 == S \cup {q.id : q \in {r \in Range(pois) : r.parent \in S}}
    IN IF S2 = S THEN S ELSE Below(pois, S2)

\* insertion points brought in by a trailing expression, in pre-order
NewPois(expr, pid, first) ==
    IF expr.tag = "skel"
    THEN [i \in 1..SkeletonOfKind(expr.kind).npoi |->
            [id |-> first + i - 1, parent |-> pid, stmts |-> <<>>,
             expr |-> addExpr(expr.v)]]
    ELSE <<>>

\* Builder.update(p, POI(stmts, expr)): replace the content of point p
update(bb, p, poi) ==
    LET idx == p + 1
        old == bb.pois[idx]
        gone == Below(bb.pois, {old.id}) \ {old.id}
        kids == NewPois(poi.expr, old.id, bb.next)
        Kept(q) == q.id \notin gone
        rest == SelectSeq(SubSeq(bb.pois, idx + 1, Len(bb.pois)), Kept)
        new == [old EXCEPT !.stmts = poi.stmts, !.expr = poi.expr]
    IN [pois |-> SubSeq(bb.pois, 1, idx - 1) \o <<new>> \o kids \o rest,
        next |-> bb.next + Len(kids),
        free |-> bb.free,
        fills |-> [i \in 1..(bb.next - 1 + Len(kids)) |->
                     IF i = old.id THEN bb.fills[i] + 1
                     ELSE IF i < bb.next THEN bb.fills[i] ELSE 0]]

\* len(contextualize_expr(e))
npois(e) == e.npoi

(***************************************************************************)
(* generator: the precomputation of control_flows.                         *)
(***************************************************************************)
\* a padding that puts the missing entries in front of the list
expanded_to_front(ls, l) ==
    LET n == IF Len(ls) > l THEN Len(ls) ELSE l
    IN [i \in 1..n |-> IF i <= n - Len(ls) THEN None ELSE ls[i - (n - Len(ls))]]

expanded_to(ls, l) ==
    [i \in 1..(IF Len(ls) > l THEN Len(ls) ELSE l) |->
        IF i <= Len(ls) THEN ls[i] ELSE None]

RECURSIVE SumNpois(_)
SumNpois(lib) == IF lib = <<>> THEN 0 ELSE npois(Head(lib)) + SumNpois(Tail(lib))

RECURSIVE ConcatVars(_)
ConcatVars(lib) == IF lib = <<>> THEN <<>> ELSE get_vars(Head(lib)) \o ConcatVars(Tail(lib))

gs == gate_lib
es == expr_lib
ps == SumNpois(expr_lib) + 1
vs == free_vars \o ConcatVars(expr_lib)

\* max() of an empty sequence raises ValueError
max_raises == gate_lib = <<>> \/ expr_lib = <<>>

nargs_of(glib, elib) ==
    MaxOf({glib[i].args : i \in 1..Len(glib)})
    + MaxOf({signature(elib[i]).args : i \in 1..Len(elib)})

nargs == nargs_of(gate_lib, expr_lib)

\* n-th element (0-based) of itertools.permutations(s)
RECURSIVE NthPerm(_, _)
NthPerm(s, n) ==
    IF s = <<>> THEN <<>>
    ELSE LET f == Fact(Len(s) - 1)
             i == (n \div f) + 1
         IN <<s[i]>> \o NthPerm(RemoveAt(s, i), n % f)

\* n-th element (0-based) of itertools.product(*[s]*l)
RECURSIVE NthTuple(_, _, _)
NthTuple(s, l, n) ==
    IF l = 0 THEN <<>>
    ELSE Append(NthTuple(s, l - 1, n \div Len(s)), s[(n % Len(s)) + 1])

\* len(list(product(*([vs]*nargs))))
nb_args == Pow(Len(vs), nargs)

\* args[n] for args = list(product(*([vs]*nargs)))
args_at(n) == NthTuple(vs, nargs, n)

e_sample == NthPerm(es, cur.e)
\* point orderings drawn from a product instead of the permutations
p_sample_product(n, i) == NthTuple([j \in 1..n |-> j - 1], n, i)
p_sample_of(n, i) == NthPerm([j \in 1..n |-> j - 1], i)
p_sample == p_sample_of(ps, cur.p)
g_sample == [i \in 1..ps |-> gs[cur.g[i] + 1]]
v_sample == [i \in 1..ps |-> args_at(cur.v[i])]

Zeros(n) == [i \in 1..n |-> 0]

\* first combination of the four nested loops
FirstCombo == [e |-> 0, p |-> 0, g |-> Zeros(ps), v |-> Zeros(ps)]

\* odometer step of a product iterator: the last digit varies fastest
LastDigits(d, base) == \A i \in 1..Len(d) : d[i] = base - 1
NextDigits(d, base) ==
    LET j == MaxOf({i \in 1..Len(d) : d[i] < base - 1})
    IN [i \in 1..Len(d) |-> IF i < j THEN d[i] ELSE IF i = j THEN d[i] + 1 ELSE 0]

\* is there a combination after c in the nested loops
HasNext(c) ==
    \/ ~LastDigits(c.v, nb_args)
    \/ ~LastDigits(c.g, Len(gs))
    \/ c.p + 1 < Fact(ps)
    \/ c.e + 1 < Fact(Len(es))

\* loops nested the other way round: the operator tuple varies fastest
NextCombination_gates_innermost(c) ==
    IF ~LastDigits(c.g, Len(gs))
    THEN [c EXCEPT !.g = NextDigits(c.g, Len(gs))]
    ELSE IF ~LastDigits(c.v, nb_args)
    THEN [c EXCEPT !.v = NextDigits(c.v, nb_args), !.g = Zeros(ps)]
    ELSE IF c.p + 1 < Fact(ps)
    THEN [c EXCEPT !.p = c.p + 1, !.g = Zeros(ps), !.v = Zeros(ps)]
    ELSE [e |-> c.e + 1, p |-> 0, g |-> Zeros(ps), v |-> Zeros(ps)]

\* the combination that follows c: innermost loop first
NextCombination(c) ==
    IF ~LastDigits(c.v, nb_args)
    THEN [c EXCEPT !.v = NextDigits(c.v, nb_args)]
    ELSE IF ~LastDigits(c.g, Len(gs))
    THEN [c EXCEPT !.g = NextDigits(c.g, Len(gs)), !.v = Zeros(ps)]
    ELSE IF c.p + 1 < Fact(ps)
    THEN [c EXCEPT !.p = c.p + 1, !.g = Zeros(ps), !.v = Zeros(ps)]
    ELSE [e |-> c.e + 1, p |-> 0, g |-> Zeros(ps), v |-> Zeros(ps)]

(***************************************************************************)
(* generator: the body of the zip loop at position k (0-based).            *)
(***************************************************************************)
zip_p == p_sample[k + 1]
zip_g == g_sample[k + 1]
zip_e == expanded_to(e_sample, Len(v_sample))[k + 1]
zip_v == v_sample[k + 1]

\* the library object (index into expr_lib) the zip hands out as e; 0 for None
zip_ref ==
    LET perm == NthPerm([i \in 1..Len(es) |-> i], cur.e)
    IN IF k + 1 <= Len(perm) THEN perm[k + 1] ELSE 0

\* a skeleton embedded without copying: the library object itself is saturated
deepcopy_alias(ref) == ref

\* deepcopy(e): a fresh object, none of the library's (reference 0)
deepcopy(ref) == 0

\* saturate_expr1 fills the insertion points of the object it is handed;
\* heap holds the content of the insertion points of the library's skeletons
saturate_in_place(heap, ref, tail) ==
    [i \in DOMAIN heap |-> IF i = ref THEN tail ELSE heap[i]]

\* assert len(v) == 2
arity_ok(v) == Len(v) = 2

\* a validation that looks at the operator argument only
in_scope_first_only(bb, p, v) == v[1] \in vscope_at(bb, p)

\* assert all(vi in b.vscope_at(p) for vi in v)
in_scope(bb, p, v) == \A i \in 1..Len(v) : v[i] \in vscope_at(bb, p)

\* the POI handed to b.update
filled_poi(g, e, v) ==
    LET tail == addExpr(v[2])
    IN POI(<<AssignStmt("None", g.name, v[1])>>,
           IF e # None THEN saturate_expr1(e, tail) ELSE tail)

\* a handler that hands out the partially built program
except_yields_partial(o, bb) == Append(o, bb)

\* except AssertionError: pass
except_AssertionError(o, bb) == o

\* the other two components, not started
DecIdle ==
    /\ d_tape = <<>>
    /\ d_operations = {}
    /\ d_pc = "idle"
    /\ d_result = <<>>

MapIdle ==
    /\ m_counts = <<>>
    /\ m_sub_wires = <<>>
    /\ m_wire_order = <<>>
    /\ m_pc = "idle"
    /\ m_result = <<>>

Init ==
    /\ expr_lib \in SeqsNoRep(Skeletons, MaxSkel)
    /\ gate_lib \in SeqsNoRep(Gates, MaxGates)
    /\ free_vars \in {SubSeq(VarNames, 1, n) : n \in 0..MaxFree}
    /\ pc = "created"
    /\ cur = [e |-> 0, p |-> 0, g |-> <<>>, v |-> <<>>]
    /\ k = 0
    /\ b = NoBuilder
    /\ out = <<>>
    /\ log = <<>>
    /\ err = "none"
    /\ lib_pois = [i \in 1..Len(expr_lib) |-> NoneExpr]
    /\ out_combo = <<>>
    /\ DecIdle
    /\ MapIdle

Inputs == <<expr_lib, gate_lib, free_vars>>

\* first next(): the precomputation raises ValueError on an empty library
StartRaise ==
    /\ pc = "created"
    /\ max_raises
    /\ pc' = "raised"
    /\ err' = "ValueError"
    /\ UNCHANGED <<decvars, mapvars, Inputs, lib_pois, out_combo, cur, k, b, out, log>>

\* first next(): the loops have no combination at all (vs is empty)
StartEmpty ==
    /\ pc = "created"
    /\ ~max_raises
    /\ nb_args = 0
    /\ pc' = "done"
    /\ UNCHANGED <<decvars, mapvars, Inputs, lib_pois, out_combo, cur, k, b, out, log, err>>

\* first next(): enter the loops with the first combination and a fresh Builder
Start ==
    /\ pc = "created"
    /\ ~max_raises
    /\ nb_args > 0
    /\ cur' = FirstCombo
    /\ b' = build(free_vars)
    /\ k' = 0
    /\ pc' = "zip"
    /\ UNCHANGED <<decvars, mapvars, Inputs, lib_pois, out_combo, out, log, err>>

\* one iteration of the zip loop: both assertions hold, the point is updated
StepUpdate ==
    /\ pc = "zip"
    /\ k < ps
    /\ arity_ok(zip_v)
    /\ has_point(b, zip_p)
    /\ in_scope(b, zip_p, zip_v)
    /\ b' = update(b, zip_p, filled_poi(zip_g, zip_e, zip_v))
    /\ lib_pois' = IF zip_e # None
                   THEN saturate_in_place(lib_pois, deepcopy(zip_ref), addExpr(zip_v[2]))
                   ELSE lib_pois
    /\ k' = k + 1
    /\ UNCHANGED <<decvars, mapvars, Inputs, pc, cur, out, log, err, out_combo>>

\* assert len(v) == 2 fails: AssertionError, caught by the handler
StepRejectArity ==
    /\ pc = "zip"
    /\ k < ps
    /\ ~arity_ok(zip_v)
    /\ pc' = "rejected"
    /\ log' = Append(log, "arity")
    /\ out' = except_AssertionError(out, b)
    /\ UNCHANGED <<decvars, mapvars, Inputs, lib_pois, out_combo, cur, k, b, err>>

\* the scope assertion fails: AssertionError, caught by the handler
StepRejectScope ==
    /\ pc = "zip"
    /\ k < ps
    /\ arity_ok(zip_v)
    /\ has_point(b, zip_p)
    /\ ~in_scope(b, zip_p, zip_v)
    /\ pc' = "rejected"
    /\ log' = Append(log, "scope")
    /\ out' = except_AssertionError(out, b)
    /\ UNCHANGED <<decvars, mapvars, Inputs, lib_pois, out_combo, cur, k, b, err>>

\* b.vscope_at(p) addresses a point the Program does not have: the error is
\* not an AssertionError and leaves the generator
StepRaise ==
    /\ pc = "zip"
    /\ k < ps
    /\ arity_ok(zip_v)
    /\ ~has_point(b, zip_p)
    /\ pc' = "raised"
    /\ err' = "IndexError"
    /\ log' = Append(log, "index")
    /\ UNCHANGED <<decvars, mapvars, Inputs, lib_pois, out_combo, cur, k, b, out>>

\* the zip loop is over: yield b
Yield ==
    /\ pc = "zip"
    /\ k = ps
    /\ out' = Append(out, b)
    /\ out_combo' = Append(out_combo, cur)
    /\ log' = Append(log, "yield")
    /\ pc' = "yielded"
    /\ UNCHANGED <<decvars, mapvars, Inputs, lib_pois, cur, k, b, err>>

\* the loops move on to the next combination with a fresh Builder
NextCombo ==
    /\ pc \in {"yielded", "rejected"}
    /\ HasNext(cur)
    /\ Len(log) < MaxCombos
    /\ cur' = NextCombination(cur)
    /\ b' = build(free_vars)
    /\ k' = 0
    /\ pc' = "zip"
    /\ UNCHANGED <<decvars, mapvars, Inputs, lib_pois, out_combo, out, log, err>>

\* the loops are exhausted: the generator returns
Finish ==
    /\ pc \in {"yielded", "rejected"}
    /\ ~HasNext(cur)
    /\ pc' = "done"
    /\ UNCHANGED <<decvars, mapvars, Inputs, lib_pois, out_combo, cur, k, b, out, log, err>>

Next ==
    \/ StartRaise
    \/ StartEmpty
    \/ Start
    \/ StepUpdate
    \/ StepRejectArity
    \/ StepRejectScope
    \/ StepRaise
    \/ Yield
    \/ NextCombo
    \/ Finish

Spec == Init /\ [][Next]_vars

(***************************************************************************)
(* Properties.                                                             *)
(***************************************************************************)
Terminated == pc \in {"done", "raised"}

Last(s) == s[Len(s)]

\* every variable referenced by the committed statements and the increment
\* expressions of the Program bb is in scope at its point, on the tree bb
RefsInScope(bb) ==
    \A i \in 1..Len(bb.pois) :
        LET q == bb.pois[i]
            S == vscope_at(bb, i - 1)
        IN /\ \A j \in 1..Len(q.stmts) : q.stmts[j].arg \in S
           /\ q.expr.tag = "add" => q.expr.v \in S

\* C1: in every yielded Program, the argument of every committed operator
\* call and the variable of every increment expression belongs to the scope
\* of its insertion point computed on the final tree.
C1_YieldedWellScoped == \A n \in 1..Len(out) : RefsInScope(out[n])

\* a yielded Program whose committed call refers to a loop binder
C1_Witness ==
    \E n \in 1..Len(out) : \E i \in 1..Len(out[n].pois) :
        /\ out[n].pois[i].stmts # <<>>
        /\ out[n].pois[i].stmts[1].arg \notin Range(free_vars)

\* C2: in every yielded Program no insertion point has been the target of
\* more than one update, although indices are re-assigned after each update
\* that embeds a skeleton.
C2_NoDoubleFill ==
    \A n \in 1..Len(out) : \A i \in 1..Len(out[n].pois) :
        out[n].fills[out[n].pois[i].id] <= 1

\* a yielded Program of a library with a two-point skeleton in which a point
\* was filled under an index other than the one it was created with
C2_Witness ==
    \E n \in 1..Len(out) :
        /\ Len(out[n].pois) >= 4
        /\ \E i \in 1..Len(out[n].pois) : out[n].pois[i].id # i
        /\ \A i \in 1..Len(out[n].pois) : out[n].fills[out[n].pois[i].id] = 1

C5_OneProgram ==
    (/\ expr_lib = <<>>
     /\ gate_lib = <<[name |-> "inc", args |-> 1]>>
     /\ free_vars = <<"x">>
     /\ Terminated)
    => /\ pc = "done"
       /\ Len(out) = 1
       /\ out[1].pois = << [id |-> 1, parent |-> 0,
                            stmts |-> <<AssignStmt("None", "inc", "x")>>,
                            expr |-> addExpr("x")] >>

\* C6: operators [f, g], no skeleton, free variables [x, y]: eight
\* combinations attempted, all yielded, pairwise distinct.
C6_EightPrograms ==
    (/\ expr_lib = <<>>
     /\ gate_lib = <<[name |-> "f", args |-> 1], [name |-> "g", args |-> 1]>>
     /\ free_vars = <<"x", "y">>
     /\ Terminated)
    => /\ pc = "done"
       /\ Len(log) = 8
       /\ Len(out) = 8
       /\ \A i, j \in 1..Len(out) : i # j => out[i].pois # out[j].pois

\* C7: no free variable, operators [inc/1]: the sequence ends empty and
\* without an error.
C7_EmptyWithoutFreeVars ==
    (/\ expr_lib = <<>>
     /\ gate_lib = <<[name |-> "inc", args |-> 1]>>
     /\ free_vars = <<>>
     /\ Terminated)
    => (pc = "done" /\ out = <<>> /\ err = "none")

\* C8: both libraries empty: the sequence is empty and no error is raised.
C8_EmptyLibraries ==
    (expr_lib = <<>> /\ gate_lib = <<>> /\ pc # "created")
    => (pc = "done" /\ out = <<>>)

\* C9: only scope violations are skipped; any other failure met while a
\* combination is processed leaves the generator as an error.
C9_OnlyScopeSkipped ==
    /\ pc = "rejected" => Last(log) = "scope"
    /\ \A i \in 1..Len(log) : log[i] \in {"arity", "index"} => (i = Len(log) /\ pc = "raised")

\* the maximum arity required by any operator or skeleton
A == MaxOf({gate_lib[i].args : i \in 1..Len(gate_lib)}
           \cup {signature(expr_lib[i]).args : i \in 1..Len(expr_lib)})

\* C10: every binding tuple has exactly A variables and no combination is
\* rejected for arity.
C10_TupleHasMaxArity ==
    /\ pc \in {"zip", "yielded", "rejected"} =>
          \A i \in 1..Len(v_sample) : Len(v_sample[i]) = A
    /\ \A i \in 1..Len(log) : log[i] # "arity"

\* C11: whatever number of combinations has been processed, the insertion
\* points of every skeleton of the library are still empty, and a Program
\* once yielded is never changed by the processing of later combinations.
C11_LibraryAndYieldedUntouched ==
    /\ [](\A i \in 1..Len(lib_pois) : lib_pois[i] = NoneExpr)
    /\ [][/\ Len(out') >= Len(out)
          /\ \A i \in 1..Len(out) : out'[i] = out[i]]_vars

\* a combination is rejected after a skeleton was saturated and embedded,
\* and after two Programs were yielded
C11_Witness == pc = "rejected" /\ k >= 1 /\ Len(out) >= 2

(***************************************************************************)
(* device/decomposition.py: catalyst_decompose.                            *)
(* An operator is a name with its regions (none for a gate); a region      *)
(* holds a quantum tape or None; a tape is a list of operators with its    *)
(* measurements and shots.                                                 *)
(***************************************************************************)
MaxDepth == 2
MaxSize == 4

Tape(ops, measurements, shots) ==
    [none |-> FALSE, ops |-> ops, measurements |-> measurements, shots |-> shots]

\* region.quantum_tape is None
NoTape == [none |-> TRUE, ops |-> <<>>, measurements |-> <<>>, shots |-> 0]

Op(name, regions) == [name |-> name, regions |-> regions]

GateNames == {"PauliX", "MultiControlledX"}

\* a hybrid operator of each kind around the region tape t
HybridsAround(t) ==
    {Op("ForLoop", <<t>>), Op("Cond", <<t, NoTape>>), Op("WhileLoop", <<NoTape, t>>)}

\* operator lists of exactly n operators in all (nested ones included), and
\* operators of exactly n operators, nested at most d levels deep
RECURSIVE OpListsOfSize(_, _)
RECURSIVE OpsOfSize(_, _)
OpListsOfSize(n, d) ==
    IF n = 0 THEN {<<>>}
    ELSE UNION {{<<o>> \o t : o \in OpsOfSize(m, d), t \in OpListsOfSize(n - m, d)} :
                   m \in 1..n}

OpsOfSize(n, d) ==
    (IF n = 1 THEN {Op(g, <<>>) : g \in GateNames} ELSE {})
    \cup (IF d = 0 THEN {}
          ELSE UNION {HybridsAround(Tape(o, <<>>, 0)) : o \in OpListsOfSize(n - 1, d - 1)})

InputTapes ==
    {Tape(o, ms[1], ms[2]) :
        o \in UNION {OpListsOfSize(n, MaxDepth) : n \in 0..MaxSize},
        ms \in {<< <<"expval">>, 0 >>, << <<"counts">>, 100 >>}}

AllOperations ==
    {"PauliX", "MultiControlledX", "QubitUnitary", "ForLoop", "Cond", "WhileLoop"}

\* the gate sets of the devices considered
OperationSets ==
    {AllOperations,
     AllOperations \ {"MultiControlledX"},
     AllOperations \ {"MultiControlledX", "QubitUnitary"},
     AllOperations \ {"MultiControlledX", "Cond"}}

\* catalyst_acceptance, the stopping condition: op.name in operations
catalyst_acceptance(op, operations) == op.name \in operations

Raised == [ok |-> FALSE, ops |-> <<>>]
Fine(ops) == [ok |-> TRUE, ops |-> ops]

\* _decompose_to_matrix: [QubitUnitary(op.matrix(), wires=op.wires)]
decompose_to_matrix(op) == Fine(<<Op("QubitUnitary", <<>>)>>)

\* catalyst_decomposer: matrix form for MultiControlledX / BlockEncode, the
\* operator's own decomposition otherwise (none is defined for the others)
catalyst_decomposer(op) ==
    IF op.name \in {"MultiControlledX", "BlockEncode"}
    THEN decompose_to_matrix(op)
    ELSE Raised

\* decompose(tape, stopping_condition, decomposer=..., error=CompileError):
\* every operator is decomposed until the stopping condition accepts it or
\* an error is hit
RECURSIVE decompose_op(_, _)
RECURSIVE decompose_ops(_, _)
decompose_op(op, operations) ==
    IF catalyst_acceptance(op, operations) THEN Fine(<<op>>)
    ELSE LET d == catalyst_decomposer(op)
         IN IF d.ok THEN decompose_ops(d.ops, operations) ELSE Raised

decompose_ops(ops, operations) ==
    IF ops = <<>> THEN Fine(<<>>)
    ELSE LET h == decompose_op(Head(ops), operations)
             t == decompose_ops(Tail(ops), operations)
         IN IF h.ok /\ t.ok THEN Fine(h.ops \o t.ops) ELSE Raised

\* has_nested_tapes: some region of the operator holds a quantum tape
has_nested_tapes(op) == \E i \in 1..Len(op.regions) : ~op.regions[i].none

TapeRaised == [ok |-> FALSE, tape |-> NoTape]

RECURSIVE catalyst_decompose(_, _)
RECURSIVE decompose_nested_tapes(_, _)
RECURSIVE nested_regions(_, _)
RECURSIVE nested_ops(_, _)

\* the loop over op.regions of _decompose_nested_tapes
nested_regions(regions, operations) ==
    IF regions = <<>> THEN Fine(<<>>)
    ELSE LET r == Head(regions)
             h == IF r.none THEN [ok |-> TRUE, tape |-> NoTape]
                  ELSE catalyst_decompose(r, operations)
             t == nested_regions(Tail(regions), operations)
         IN IF h.ok /\ t.ok THEN Fine(<<h.tape>> \o t.ops) ELSE Raised

\* an operator whose nested tapes are left as they are
decompose_nested_keep(op, operations) == [ok |-> TRUE, op |-> op]

\* _decompose_nested_tapes: the same operator over the decomposed regions
decompose_nested_tapes(op, operations) ==
    LET r == nested_regions(op.regions, operations)
    IN [ok |-> r.ok, op |-> Op(op.name, r.ops)]

\* the loop over toplevel_tape.operations of catalyst_decompose
nested_ops(ops, operations) ==
    IF ops = <<>> THEN Fine(<<>>)
    ELSE LET o == Head(ops)
             h == IF has_nested_tapes(o) THEN decompose_nested_tapes(o, operations)
                  ELSE [ok |-> TRUE, op |-> o]
             t == nested_ops(Tail(ops), operations)
         IN IF h.ok /\ t.ok THEN Fine(<<h.op>> \o t.ops) ELSE Raised

catalyst_decompose(tape, operations) ==
    LET toplevel == decompose_ops(tape.ops, operations)
    IN IF ~toplevel.ok THEN TapeRaised
       ELSE LET new_ops == nested_ops(toplevel.ops, operations)
            IN IF ~new_ops.ok THEN TapeRaised
               ELSE [ok |-> TRUE,
                     tape |-> Tape(new_ops.ops, tape.measurements, tape.shots)]

GenIdle ==
    /\ expr_lib = <<>>
    /\ gate_lib = <<>>
    /\ free_vars = <<>>
    /\ pc = "idle"
    /\ cur = [e |-> 0, p |-> 0, g |-> <<>>, v |-> <<>>]
    /\ k = 0
    /\ b = NoBuilder
    /\ out = <<>>
    /\ log = <<>>
    /\ err = "none"
    /\ lib_pois = <<>>
    /\ out_combo = <<>>

InitDecompose ==
    /\ d_tape \in InputTapes
    /\ d_operations \in OperationSets
    /\ d_pc = "ready"
    /\ d_result = <<>>
    /\ GenIdle
    /\ MapIdle

genvars == <<expr_lib, gate_lib, free_vars, pc, cur, k, b, out, log, err,
             lib_pois, out_combo>>

\* the transform returns the decomposed tape
Decompose ==
    /\ d_pc = "ready"
    /\ catalyst_decompose(d_tape, d_operations).ok
    /\ d_result' = catalyst_decompose(d_tape, d_operations).tape
    /\ d_pc' = "done"
    /\ UNCHANGED <<d_tape, d_operations, genvars, mapvars>>

\* the transform raises CompileError
DecomposeRaise ==
    /\ d_pc = "ready"
    /\ ~catalyst_decompose(d_tape, d_operations).ok
    /\ d_pc' = "raised"
    /\ UNCHANGED <<d_tape, d_operations, d_result, genvars, mapvars>>

NextDecompose == Decompose \/ DecomposeRaise

SpecDecompose == InitDecompose /\ [][NextDecompose]_vars

\* no operator of the tape, at any nesting depth, is rejected by the
\* stopping condition
RECURSIVE AllAccepted(_, _)
AllAccepted(tape, operations) ==
    \A i \in 1..Len(tape.ops) :
        /\ catalyst_acceptance(tape.ops[i], operations)
        /\ \A j \in 1..Len(tape.ops[i].regions) :
              AllAccepted(tape.ops[i].regions[j], operations)

\* the operator named n occurs in the tape at nesting depth d
RECURSIVE OccursAt(_, _, _)
OccursAt(tape, n, d) ==
    \E i \in 1..Len(tape.ops) :
        \/ d = 0 /\ tape.ops[i].name = n
        \/ d > 0 /\ \E j \in 1..Len(tape.ops[i].regions) :
                       OccursAt(tape.ops[i].regions[j], n, d - 1)

\* C13: the tape returned by catalyst_decompose contains no operator that
\* the stopping condition rejects, at the top level or in any region of a
\* nested hybrid operation, and keeps the measurements and shots.
C13_NoRejectedOperatorLeft ==
    d_pc = "done" =>
        /\ AllAccepted(d_result, d_operations)
        /\ d_result.measurements = d_tape.measurements
        /\ d_result.shots = d_tape.shots

\* MultiControlledX, not in the gate set, sat in a region two levels deep and
\* at the top level of the tape that was decomposed
C13_Witness ==
    /\ d_pc = "done"
    /\ "MultiControlledX" \notin d_operations
    /\ OccursAt(d_tape, "MultiControlledX", 2)
    /\ OccursAt(d_tape, "MultiControlledX", 0)
    /\ OccursAt(d_result, "QubitUnitary", 2)

\* lexicographic order on integer sequences of the same length
RECURSIVE LexLess(_, _)
LexLess(s, t) ==
    /\ s # <<>>
    /\ \/ Head(s) < Head(t)
       \/ Head(s) = Head(t) /\ LexLess(Tail(s), Tail(t))

RECURSIVE Flatten(_)
Flatten(ss) == IF ss = <<>> THEN <<>> ELSE Head(ss) \o Flatten(Tail(ss))

\* a combination written with the library positions of what it chose:
\* skeleton permutation, point permutation, operator tuple, variable tuples
ComboKey(c) ==
    NthPerm([i \in 1..Len(es) |-> i], c.e)
    \o p_sample_of(ps, c.p)
    \o c.g
    \o Flatten([i \in 1..Len(c.v) |->
                  NthTuple([j \in 1..Len(vs) |-> j], nargs, c.v[i])])

\* C14: the yielded Programs come in the lexicographic order of their
\* combinations (skeleton permutation slowest, variable tuples fastest), each
\* component ordered as the input libraries are.  The order being
\* transitive, it is stated on each Program and the one yielded next.
C14_YieldedInLexOrder ==
    \A i \in 1..(Len(out_combo) - 1) :
        LexLess(ComboKey(out_combo[i]), ComboKey(out_combo[i + 1]))

\* two Programs were yielded with a rejected combination between them, and
\* they differ in the operator tuple
C14_Witness ==
    /\ Len(out_combo) >= 2
    /\ out_combo[1].g # out_combo[Len(out_combo)].g
    /\ \E i, j \in 1..Len(log) :
          i < j /\ j < Len(log) /\ log[i] = "yield" /\ log[j] = "scope"
          /\ Last(log) = "yield"

RECURSIVE SumSeq(_)
SumSeq(s) == IF s = <<>> THEN 0 ELSE Head(s) + SumSeq(Tail(s))

\* the insertion points of bb directly below the point with identity id
ChildrenOf(bb, id) == SelectSeq(bb.pois, LAMBDA q : q.parent = id)

\* what the point at index p of bb2 must hold after the update of position
\* kk (0-based) of the combination, made on bb1
CommittedAt(bb1, bb2, kk, p) ==
    LET q == bb2.pois[p + 1]
        g == g_sample[kk + 1]
        v == v_sample[kk + 1]
        kids == ChildrenOf(bb2, q.id)
    IN /\ q.id = bb1.pois[p + 1].id
       /\ q.stmts = <<[target |-> "None", fn |-> g.name, arg |-> v[1]]>>
       /\ IF kk < Len(expr_lib)
          THEN /\ q.expr.tag = "skel"
               /\ q.expr.kind = e_sample[kk + 1].kind
               /\ Len(kids) = e_sample[kk + 1].npoi
               /\ \A i \in 1..Len(kids) :
                     kids[i].stmts = <<>> /\ kids[i].expr = addExpr(v[2])
          ELSE q.expr = addExpr(v[2]) /\ kids = <<>>
       /\ bb2.fills[q.id] = bb1.fills[q.id] + 1
       /\ SumSeq(bb2.fills) = SumSeq(bb1.fills) + 1

\* C15: the update of the k-th position puts at its point the no-target call
\* of the k-th operator on the first variable of the k-th binding, and as
\* trailing expression the k-th skeleton of the permutation saturated with
\* (second variable + 1) while k is below the number of skeletons, else just
\* (second variable + 1); one update per position, P per yielded Program.
C15_CommitPerPosition ==
    /\ [][(pc = "zip" /\ k' = k + 1) => CommittedAt(b, b', k, zip_p)]_vars
    /\ [](\A n \in 1..Len(out) : SumSeq(out[n].fills) = ps)

\* a Program of a two-skeleton library was yielded from bindings one of
\* which has two different variables
C15_Witness ==
    /\ pc = "yielded"
    /\ Len(expr_lib) = 2
    /\ \E i \in 1..Len(v_sample) : v_sample[i][1] # v_sample[i][2]

\* C16: every vscope_at / update call of the enumerator addresses an
\* insertion point that exists in the Builder's Program at that time.
C16_AddressedPointExists ==
    (pc = "zip" /\ k < ps /\ arity_ok(zip_v)) => has_point(b, zip_p)

\* the arguments of the call of a committed statement: [VRefExpr(v[0])]
call_args(stmt) == <<stmt.arg>>

\* len(Signature.args) of the operator called fn
SlotsOf(fn) == (CHOOSE g \in Range(gate_lib) : g.name = fn).args

\* C17: every operator call committed to a Program supplies as many
\* arguments as the Signature of the operator declares.
C17_CallMatchesSignature ==
    \A i \in 1..Len(b.pois) : \A j \in 1..Len(b.pois[i].stmts) :
        Len(call_args(b.pois[i].stmts[j])) = SlotsOf(b.pois[i].stmts[j].fn)

(***************************************************************************)
(* device/decomposition.py: _map_counts.                                   *)
(***************************************************************************)
MaxWires == 2
MaxCount == 2

\* format(outcome, f"0{n}b"): the n binary digits of outcome, first the
\* most significant one
RECURSIVE format_binary(_, _)
format_binary(outcome, n) ==
    IF n = 0 THEN <<>>
    ELSE Append(format_binary(outcome \div 2, n - 1), outcome % 2)

\* dict(zip(wire_order, range(len(wire_order))))[w]
wire_map(wire_order, w) == (CHOOSE i \in 1..Len(wire_order) : wire_order[i] = w) - 1

mapped_wires(sub_wires, wire_order) ==
    [i \in 1..Len(sub_wires) |-> wire_map(wire_order, sub_wires[i])]

\* "".join(binary_outcome[i] for i in mapped_wires)
mapped_outcome(binary_outcome, mw) == [i \in 1..Len(mw) |-> binary_outcome[mw[i] + 1]]

\* mapped_counts[key] = mapped_counts.get(key, 0) + occurrence, on a dict
\* kept as the list of its items in insertion order
dict_add(items, key, occurrence) ==
    IF \E i \in 1..Len(items) : items[i].key = key
    THEN [i \in 1..Len(items) |->
            IF items[i].key = key
            THEN [key |-> key, value |-> items[i].value + occurrence]
            ELSE items[i]]
    ELSE Append(items, [key |-> key, value |-> occurrence])

\* the loop over enumerate(counts), from the outcome `outcome` on
RECURSIVE map_loop(_, _, _, _, _)
map_loop(items, counts, outcome, mw, num_wires) ==
    IF outcome >= Len(counts) THEN items
    ELSE map_loop(dict_add(items,
                           mapped_outcome(format_binary(outcome, num_wires), mw),
                           counts[outcome + 1]),
                  counts, outcome + 1, mw, num_wires)

\* list(mapped_counts.values())
map_counts(counts, sub_wires, wire_order) ==
    LET items == map_loop(<<>>, counts, 0, mapped_wires(sub_wires, wire_order),
                          Len(wire_order))
    IN [i \in 1..Len(items) |-> items[i].value]

WireOrders(n) == {s \in [1..n -> 0..(n - 1)] : \A i, j \in 1..n : i # j => s[i] # s[j]}

InitMapCounts ==
    /\ \E n \in 1..MaxWires :
          /\ m_wire_order \in WireOrders(n)
          /\ m_sub_wires \in SeqsNoRep(0..(n - 1), n)
          /\ m_counts \in [1..Pow(2, n) -> 0..MaxCount]
    /\ m_pc = "ready"
    /\ m_result = <<>>
    /\ GenIdle
    /\ DecIdle

MapCounts ==
    /\ m_pc = "ready"
    /\ m_result' = map_counts(m_counts, m_sub_wires, m_wire_order)
    /\ m_pc' = "done"
    /\ UNCHANGED <<m_counts, m_sub_wires, m_wire_order, genvars, decvars>>

NextMapCounts == MapCounts

SpecMapCounts == InitMapCounts /\ [][NextMapCounts]_vars

\* the value of the bits of outcome (an outcome over wire_order) on the
\* wires sub_wires, read in the order of sub_wires
RECURSIVE BitsValue(_)
BitsValue(bits) ==
    IF bits = <<>> THEN 0 ELSE 2 * BitsValue(SubSeq(bits, 1, Len(bits) - 1)) + bits[Len(bits)]

ValueOn(outcome, sub_wires, wire_order) ==
    BitsValue([i \in 1..Len(sub_wires) |->
                 format_binary(outcome, Len(wire_order))[wire_map(wire_order, sub_wires[i]) + 1]])

RECURSIVE SumOver(_, _)
SumOver(counts, S) ==
    IF S = {} THEN 0
    ELSE LET o == CHOOSE x \in S : TRUE
         IN counts[o + 1] + SumOver(counts, S \ {o})

\* C18: the k-th entry of the vector returned by _map_counts is the sum of
\* the counts of the outcomes whose bits on sub_wires, in sub_wires order,
\* are the binary digits of k; the entries sum to the sum of the counts.
C18_EntriesInBasisOrder ==
    m_pc = "done" =>
        /\ Len(m_result) = Pow(2, Len(m_sub_wires))
        /\ \A kk \in 0..(Len(m_result) - 1) :
              m_result[kk + 1] =
                 SumOver(m_counts,
                         {o \in 0..(Len(m_counts) - 1) :
                             ValueOn(o, m_sub_wires, m_wire_order) = kk})
        /\ SumSeq(m_result) = SumSeq(m_counts)

====
